---- MODULE Spec2Model ----
(***************************************************************************)
(* SmartStudy (smartstudy_single.py): the extractive summarizer, the       *)
(* rule-based flashcard generator and the POST /summarize route.           *)
(*                                                                         *)
(* A Python str is modelled as a sequence of one-character strings, so     *)
(* that stripping, regular-expression splitting, tokenizing and joining    *)
(* are computed character by character.  Python's 0-based list indices     *)
(* are 1-based here.  A local variable that is not yet bound is the empty  *)
(* sequence, a bound one the one-element sequence holding its value.       *)
(***************************************************************************)
EXTENDS Integers, Sequences, FiniteSets, TLC

VARIABLES
  pc,             \* position of the invocation
  text,           \* summarize / generate_flashcards: argument text
  max_sentences,  \* summarize: argument max_sentences
  sents,          \* summarize: local sents
  freq,           \* summarize: local freq (Counter)
  scores,         \* summarize: local scores (defaultdict, in insertion order)
  ranked,         \* summarize: local ranked
  idx,            \* summarize: local idx
  sentence,       \* _qa_from_sentence: argument sentence
  max_cards,      \* generate_flashcards: argument max_cards
  cards,          \* generate_flashcards: local cards
  todo,           \* generate_flashcards: what the for loop has yet to visit
  payload,        \* api_summarize: argument payload
  result,         \* the value returned
  stopwords,      \* the module global STOPWORDS as it stands
  calls           \* concurrent invocations: the frame of each

vars ==
  <<pc, text, max_sentences, sents, freq, scores, ranked, idx, sentence,
    max_cards, cards, todo, payload, result, stopwords, calls>>

\* the locals of summarize
sumLocals == <<sents, freq, scores, ranked, idx>>

\* what an invocation of summarize leaves alone
notSum == <<sentence, max_cards, cards, todo, payload, stopwords, calls>>

-----------------------------------------------------------------------------
(* Bounds of the checked input space.                                      *)

\* most chunks a summarize input text is composed of
MaxChunks == 3
\* largest max_sentences passed to summarize
MaxK == 2

-----------------------------------------------------------------------------
(* Characters and Python str primitives.                                   *)

\* characters str.strip() removes and \s matches
Whitespace == {" ", "\n", "\t", "\r", "\f"}

\* the character class [.!?] of the sentence-splitting pattern and of rstrip
Terminals == {".", "!", "?"}

UpperLetters ==
  <<"A","B","C","D","E","F","G","H","I","J","K","L","M",
    "N","O","P","Q","R","S","T","U","V","W","X","Y","Z">>

LowerLetters ==
  <<"a","b","c","d","e","f","g","h","i","j","k","l","m",
    "n","o","p","q","r","s","t","u","v","w","x","y","z">>

Digits == {"0","1","2","3","4","5","6","7","8","9"}

\* characters \w matches
WordChars ==
  {UpperLetters[i] : i \in 1..26} \cup {LowerLetters[i] : i \in 1..26}
    \cup Digits \cup {"_"}

\* the lower-case letter of each upper-case letter
LowerOf ==
  [c \in {UpperLetters[i] : i \in 1..26} |->
     LowerLetters[CHOOSE i \in 1..26 : UpperLetters[i] = c]]

\* str.lower() on one character
LowerChar(c) == IF c \in DOMAIN LowerOf THEN LowerOf[c] ELSE c

\* str.lower()
Lower(s) == [i \in 1..Len(s) |-> LowerChar(s[i])]

RECURSIVE LStrip(_)
LStrip(s) ==
  IF s # <<>> /\ Head(s) \in Whitespace THEN LStrip(Tail(s)) ELSE s

RECURSIVE RStrip(_)
RStrip(s) ==
  IF s # <<>> /\ s[Len(s)] \in Whitespace
    THEN RStrip(SubSeq(s, 1, Len(s) - 1))
    ELSE s

\* str.strip()
Strip(s) == RStrip(LStrip(s))

\* sep.join(parts)
RECURSIVE Join(_, _)
Join(sep, parts) ==
  IF parts = <<>> THEN <<>>
  ELSE IF Len(parts) = 1 THEN parts[1]
  ELSE parts[1] \o sep \o Join(sep, Tail(parts))

\* a local variable: unbound, or bound to a value
Unbound == <<>>
Bound(v) == <<v>>
Val(x) == x[1]

-----------------------------------------------------------------------------
(* Sentence splitter and word normalizer.                                  *)

STOPWORDS ==
  { <<"a">>, <<"a","n">>, <<"t","h","e">>, <<"a","n","d">>, <<"i","s">>, <<"a","r","e">>,
    <<"w","a","s">>, <<"w","e","r","e">>, <<"i","n">>, <<"o","n">>, <<"o","f">>,
    <<"f","o","r">>, <<"t","o">>, <<"w","i","t","h">>, <<"b","y">>, <<"t","h","a","t">>,
    <<"t","h","i","s">>, <<"i","t">>, <<"a","s">>, <<"a","t">>, <<"f","r","o","m">>,
    <<"b","e">>, <<"o","r">>, <<"a","b","o","u","t">>, <<"i","n","t","o">>,
    <<"o","v","e","r">>, <<"a","f","t","e","r">>, <<"b","e","f","o","r","e">>,
    <<"u","n","d","e","r">>, <<"b","e","t","w","e","e","n">>, <<"d","u","r","i","n","g">>,
    <<"t","h","r","o","u","g","h">>, <<"u","p">>, <<"d","o","w","n">>, <<"o","u","t">>,
    <<"o","f","f">>, <<"a","b","o","v","e">>, <<"b","e","l","o","w">>, <<"c","a","n">>,
    <<"c","o","u","l","d">>, <<"s","h","o","u","l","d">>, <<"w","o","u","l","d">>,
    <<"m","a","y">>, <<"m","i","g","h","t">>, <<"s","h","a","l","l">>, <<"w","i","l","l">>,
    <<"j","u","s","t">>, <<"n","o","t">>, <<"n","o">>, <<"n","o","r">>, <<"s","o">>,
    <<"s","u","c","h">>, <<"t","h","a","n">>, <<"t","h","e","n">>, <<"t","o","o">>,
    <<"v","e","r","y">> }

\* first position from i on that holds no whitespace (the end of a \s+ match)
RECURSIVE SkipWhitespace(_, _)
SkipWhitespace(t, i) ==
  IF i <= Len(t) /\ t[i] \in Whitespace THEN SkipWhitespace(t, i + 1) ELSE i

\* re.split(r'(?<=[.!?])\s+', t): scanning from position i, with the fragment
\* cur open and the fragments acc closed
RECURSIVE ReSplitFrom(_, _, _, _)
ReSplitFrom(t, i, cur, acc) ==
  IF i > Len(t) THEN Append(acc, cur)
  ELSE IF t[i] \in Whitespace /\ i > 1 /\ t[i - 1] \in Terminals
    THEN ReSplitFrom(t, SkipWhitespace(t, i), <<>>, Append(acc, cur))
    ELSE ReSplitFrom(t, i + 1, Append(cur, t[i]), acc)

ReSplit(t) == ReSplitFrom(t, 1, <<>>, <<>>)

\* mutant of StripNonEmpty: the empty fragments are kept
StripKeepingEmpty(frags) == [i \in 1..Len(frags) |-> Strip(frags[i])]

\* [s.strip() for s in sentences if s.strip()]
RECURSIVE StripNonEmpty(_)
StripNonEmpty(frags) ==
  IF frags = <<>> THEN <<>>
  ELSE IF Strip(Head(frags)) = <<>> THEN StripNonEmpty(Tail(frags))
  ELSE <<Strip(Head(frags))>> \o StripNonEmpty(Tail(frags))

_tokenize_sentences(t) == StripNonEmpty(ReSplit(Strip(t)))

\* re.findall(r'\w+', s): scanning from position i, with the run cur open
RECURSIVE FindWordsFrom(_, _, _, _)
FindWordsFrom(s, i, cur, acc) ==
  IF i > Len(s) THEN (IF cur = <<>> THEN acc ELSE Append(acc, cur))
  ELSE IF s[i] \in WordChars
    THEN FindWordsFrom(s, i + 1, Append(cur, s[i]), acc)
    ELSE FindWordsFrom(s, i + 1, <<>>,
                       IF cur = <<>> THEN acc ELSE Append(acc, cur))

FindWords(s) == FindWordsFrom(s, 1, <<>>, <<>>)

\* [w for w in words if w not in STOPWORDS]
RECURSIVE DropStopwords(_)
DropStopwords(words) ==
  IF words = <<>> THEN <<>>
  ELSE IF Head(words) \in STOPWORDS THEN DropStopwords(Tail(words))
  ELSE <<Head(words)>> \o DropStopwords(Tail(words))

_tokenize_words(s) == DropStopwords(FindWords(Lower(s)))

\* the module as imported, and no concurrent invocation
ModuleLoaded ==
  /\ stopwords = STOPWORDS
  /\ calls = <<>>

-----------------------------------------------------------------------------
(* summarize: the helpers of its steps.                                    *)

\* freq[w] += 1
CounterAdd(f, w) ==
  IF w \in DOMAIN f THEN [f EXCEPT ![w] = @ + 1] ELSE f @@ (w :> 1)

\* for w in words: freq[w] += 1
RECURSIVE CountWords(_, _)
CountWords(f, words) ==
  IF words = <<>> THEN f
  ELSE CountWords(CounterAdd(f, Head(words)), Tail(words))

\* for s in sents: for w in _tokenize_words(s): freq[w] += 1
RECURSIVE CountSentences(_, _)
CountSentences(f, ss) ==
  IF ss = <<>> THEN f
  ELSE CountSentences(CountWords(f, _tokenize_words(Head(ss))), Tail(ss))

\* freq = Counter() and the loop that fills it
CountFreq(ss) == CountSentences(<<>>, ss)

\* Counter.__getitem__: a missing key reads as 0
CounterGet(f, w) == IF w \in DOMAIN f THEN f[w] ELSE 0

\* for w in words: scores[i] += freq[w], from the running total
RECURSIVE AddFreqs(_, _, _)
AddFreqs(total, words, f) ==
  IF words = <<>> THEN total
  ELSE AddFreqs(total + CounterGet(f, Head(words)), Tail(words), f)

\* mutant of ScoreFrom: every sentence gets an entry, a sentence without tokens
\* the score 0
RECURSIVE ScoreEveryFrom(_, _, _, _)
ScoreEveryFrom(ss, i, f, acc) ==
  IF i > Len(ss) THEN acc
  ELSE ScoreEveryFrom(ss, i + 1, f,
                      Append(acc, <<i, AddFreqs(0, _tokenize_words(ss[i]), f)>>))

\* the scoring loop from sentence i on: the defaultdict gets the entry <<i, score>>
\* at the first token of sentence i, so a sentence without tokens gets none
RECURSIVE ScoreFrom(_, _, _, _)
ScoreFrom(ss, i, f, acc) ==
  IF i > Len(ss) THEN acc
  ELSE LET words == _tokenize_words(ss[i])
       IN  ScoreFrom(ss, i + 1, f,
                     IF words = <<>> THEN acc
                     ELSE Append(acc, <<i, AddFreqs(0, words, f)>>))

\* scores = defaultdict(int) and the loop that fills it; scores.items() order
ScoreSentences(ss, f) == ScoreFrom(ss, 1, f, <<>>)

\* one insertion of a stable descending sort: e goes behind every item whose
\* score is at least e's
RECURSIVE InsertDesc(_, _)
InsertDesc(sorted, e) ==
  IF sorted = <<>> THEN <<e>>
  ELSE IF Head(sorted)[2] >= e[2]
    THEN <<Head(sorted)>> \o InsertDesc(Tail(sorted), e)
    ELSE <<e>> \o sorted

RECURSIVE SortDescFrom(_, _)
SortDescFrom(items, sorted) ==
  IF items = <<>> THEN sorted
  ELSE SortDescFrom(Tail(items), InsertDesc(sorted, Head(items)))

\* sorted(scores.items(), key=lambda x: x[1], reverse=True): stable
Rank(sc) == SortDescFrom(sc, <<>>)

\* seq[:k] for any integer k
SlicePrefix(seq, k) ==
  IF k >= 0 THEN SubSeq(seq, 1, IF k < Len(seq) THEN k ELSE Len(seq))
  ELSE SubSeq(seq, 1, Len(seq) + k)

RECURSIVE InsertAsc(_, _)
InsertAsc(sorted, n) ==
  IF sorted = <<>> THEN <<n>>
  ELSE IF Head(sorted) <= n
    THEN <<Head(sorted)>> \o InsertAsc(Tail(sorted), n)
    ELSE <<n>> \o sorted

RECURSIVE SortAscFrom(_, _)
SortAscFrom(items, sorted) ==
  IF items = <<>> THEN sorted
  ELSE SortAscFrom(Tail(items), InsertAsc(sorted, Head(items)))

\* sorted(...) of integers
SortAsc(items) == SortAscFrom(items, <<>>)

\* mutant of SelectIdx: the selected indices are left in rank order
SelectIdxUnsorted(rk, k) ==
  LET top == SlicePrefix(rk, k)
  IN  [j \in 1..Len(top) |-> top[j][1]]

\* idx = sorted(i for i, _ in ranked[:max_sentences])
SelectIdx(rk, k) ==
  LET top == SlicePrefix(rk, k)
  IN  SortAsc([j \in 1..Len(top) |-> top[j][1]])

\* mutant of JoinSelected: the sentences are joined without a separator
JoinSelectedNoSeparator(ss, ix) == Join(<<>>, [j \in 1..Len(ix) |-> ss[ix[j]]])

\* " ".join(sents[i] for i in idx)
JoinSelected(ss, ix) == Join(<<" ">>, [j \in 1..Len(ix) |-> ss[ix[j]]])

\* mutant of FitsWhole: the comparison is strict
FitsWholeStrict(ss, k) == Len(ss) < k

\* if len(sents) <= max_sentences
FitsWhole(ss, k) == Len(ss) <= k

\* summarize(text, max_sentences), as one function
summarize(t, k) ==
  LET ss == _tokenize_sentences(t)
  IN  IF ss = <<>> THEN <<>>
      ELSE IF FitsWhole(ss, k) THEN Join(<<" ">>, ss)
      ELSE JoinSelected(ss, SelectIdx(Rank(ScoreSentences(ss, CountFreq(ss))), k))

-----------------------------------------------------------------------------
(* summarize: the inputs checked.                                          *)

\* pieces of text: a sentence of one token, a sentence of one stopword, a
\* sentence with an upper-case word, a fragment without terminal punctuation,
\* a sentence that repeats a token
SumChunks ==
  { <<"b", ".">>, <<"a", ".">>, <<"B", " ", "c", "!">>, <<"c">>,
    <<"c", " ", "c", "?">> }

\* what stands between two pieces
SumSeps == { <<" ">>, <<>>, <<"\n">> }

RECURSIVE ComposeText(_, _, _)
ComposeText(chunks, seps, n) ==
  IF n = 0 THEN {<<>>}
  ELSE IF n = 1 THEN chunks
  ELSE {t \o s \o c : t \in ComposeText(chunks, seps, n - 1), s \in seps, c \in chunks}

\* the empty text and whitespace-only texts
BlankTexts == { <<>>, <<" ">>, <<" ", "\n">> }

SumTexts ==
  BlankTexts \cup UNION {ComposeText(SumChunks, SumSeps, n) : n \in 0..MaxChunks}

-----------------------------------------------------------------------------
(* summarize: one invocation, step by step.                                *)

InitSum ==
  /\ ModuleLoaded
  /\ pc = "summarize"
  /\ text \in SumTexts
  /\ max_sentences \in 1..MaxK
  /\ sents = Unbound
  /\ freq = Unbound
  /\ scores = Unbound
  /\ ranked = Unbound
  /\ idx = Unbound
  /\ result = Unbound
  /\ sentence = <<>>
  /\ max_cards = 0
  /\ cards = Unbound
  /\ todo = Unbound
  /\ payload = <<>>

\* sents = _tokenize_sentences(text)
SumSplit ==
  /\ pc = "summarize"
  /\ sents' = Bound(_tokenize_sentences(text))
  /\ pc' = "split"
  /\ UNCHANGED <<text, max_sentences, freq, scores, ranked, idx, result, notSum>>

\* if not sents: return ""
SumReturnEmpty ==
  /\ pc = "split"
  /\ Val(sents) = <<>>
  /\ result' = Bound(<<>>)
  /\ pc' = "done"
  /\ UNCHANGED <<text, max_sentences, sents, freq, scores, ranked, idx, notSum>>

\* if len(sents) <= max_sentences: return " ".join(sents)
SumReturnAll ==
  /\ pc = "split"
  /\ Val(sents) # <<>>
  /\ FitsWhole(Val(sents), max_sentences)
  /\ result' = Bound(Join(<<" ">>, Val(sents)))
  /\ pc' = "done"
  /\ UNCHANGED <<text, max_sentences, sents, freq, scores, ranked, idx, notSum>>

\* freq = Counter() and its loop
SumCount ==
  /\ pc = "split"
  /\ Val(sents) # <<>>
  /\ ~FitsWhole(Val(sents), max_sentences)
  /\ freq' = Bound(CountFreq(Val(sents)))
  /\ pc' = "counted"
  /\ UNCHANGED <<text, max_sentences, sents, scores, ranked, idx, result, notSum>>

\* scores = defaultdict(int) and its loop
SumScore ==
  /\ pc = "counted"
  /\ scores' = Bound(ScoreSentences(Val(sents), Val(freq)))
  /\ pc' = "scored"
  /\ UNCHANGED <<text, max_sentences, sents, freq, ranked, idx, result, notSum>>

\* ranked = sorted(...)
SumRank ==
  /\ pc = "scored"
  /\ ranked' = Bound(Rank(Val(scores)))
  /\ pc' = "ranked"
  /\ UNCHANGED <<text, max_sentences, sents, freq, scores, idx, result, notSum>>

\* idx = sorted(...); return " ".join(sents[i] for i in idx)
SumSelect ==
  /\ pc = "ranked"
  /\ idx' = Bound(SelectIdx(Val(ranked), max_sentences))
  /\ result' = Bound(JoinSelected(Val(sents), SelectIdx(Val(ranked), max_sentences)))
  /\ pc' = "done"
  /\ UNCHANGED <<text, max_sentences, sents, freq, scores, ranked, notSum>>

NextSum ==
  \/ SumSplit
  \/ SumReturnEmpty
  \/ SumReturnAll
  \/ SumCount
  \/ SumScore
  \/ SumRank
  \/ SumSelect

SpecSum == InitSum /\ [][NextSum]_vars

\* the steps compute what the function computes
SumStepsAgree ==
  pc = "done" /\ sents # Unbound => Val(result) = summarize(text, max_sentences)

-----------------------------------------------------------------------------
(* Flashcard generator: the rules of _qa_from_sentence.                    *)

\* the alternatives of (is|are|was|were), in the pattern's order
CopulaVerbs == <<<<"i", "s">>, <<"a", "r", "e">>, <<"w", "a", "s">>, <<"w", "e", "r", "e">>>>

\* the verb of the possession pattern
HasVerbs == <<<<"h", "a", "s">>>>

\* f"What is {subject}?"
WhatIsPrefix == <<"W", "h", "a", "t", " ", "i", "s", " ">>

\* f"What does {subject} have?"
WhatDoesPrefix == <<"W", "h", "a", "t", " ", "d", "o", "e", "s", " ">>
HaveSuffix == <<" ", "h", "a", "v", "e", "?">>

\* f"What does this say about: {...}..." with the one-character ellipsis U+2026
WhatSayPrefix ==
  <<"W", "h", "a", "t", " ", "d", "o", "e", "s", " ", "t", "h", "i", "s", " ", "s", "a", "y", " ", "a", "b", "o", "u", "t", ":", " ">>
Ellipsis == <<"U+2026">>

\* f"Question: {s[:40]}..."
QuestionPrefix == <<"Q", "u", "e", "s", "t", "i", "o", "n", ":", " ">>
ThreeDots == <<".", ".", ".">>

\* len(words) > 6 and words[:6]
LongWords == 6

\* s[:40]
QuestionChars == 40

\* (is|are|was|were)\s or has\s at position p, ignoring case: the length of the
\* first alternative that matches there and is followed by whitespace, else 0
VerbLenAt(s, p, verbs) ==
  LET fits(n) ==
        /\ p + Len(verbs[n]) <= Len(s)
        /\ Lower(SubSeq(s, p, p + Len(verbs[n]) - 1)) = verbs[n]
        /\ s[p + Len(verbs[n])] \in Whitespace
  IN  IF \E n \in 1..Len(verbs) : fits(n)
        THEN Len(verbs[CHOOSE n \in 1..Len(verbs) :
                        fits(n) /\ \A m \in 1..(n - 1) : ~fits(m)])
        ELSE 0

\* the end of a greedy (.*) that starts at position j: "." matches no line feed
RECURSIVE LineEnd(_, _)
LineEnd(s, j) ==
  IF j <= Len(s) /\ s[j] # "\n" THEN LineEnd(s, j + 1) ELSE j - 1

\* the groups of a match whose group 1 is the first i characters and whose verb,
\* n characters long, is at position p
MatchGroups(s, i, p, n) ==
  LET j == SkipWhitespace(s, p + n)
  IN  <<[subject |-> SubSeq(s, 1, i), rest |-> SubSeq(s, j, LineEnd(s, j))]>>

\* re.search(r'^(.*?)\s+(verbs)\s+(.*)', s, re.IGNORECASE), trying group 1 =
\* the first i characters, then longer ones (the group is lazy and holds no
\* line feed): <<>> for no match, else the one-element sequence of the groups
RECURSIVE ReSearchFrom(_, _, _)
ReSearchFrom(s, i, verbs) ==
  IF i >= Len(s) THEN <<>>
  ELSE IF i >= 1 /\ s[i] = "\n" THEN <<>>
  ELSE LET p == SkipWhitespace(s, i + 1)
           n == VerbLenAt(s, p, verbs)
       IN  IF s[i + 1] \in Whitespace /\ n > 0
             THEN MatchGroups(s, i, p, n)
             ELSE ReSearchFrom(s, i + 1, verbs)

\* mutant of ReSearch: group 1 is greedy, so the last verb is the split point
RECURSIVE ReSearchDownFrom(_, _, _)
ReSearchDownFrom(s, i, verbs) ==
  IF i < 0 THEN <<>>
  ELSE LET p == SkipWhitespace(s, i + 1)
           n == VerbLenAt(s, p, verbs)
       IN  IF /\ i < Len(s)
              /\ \A j \in 1..i : s[j] # "\n"
              /\ s[i + 1] \in Whitespace
              /\ n > 0
             THEN MatchGroups(s, i, p, n)
             ELSE ReSearchDownFrom(s, i - 1, verbs)

ReSearchGreedy(s, verbs) == ReSearchDownFrom(s, Len(s), verbs)

ReSearch(s, verbs) == ReSearchFrom(s, 0, verbs)

\* str.rstrip(".!?")
RECURSIVE RStripTerminals(_)
RStripTerminals(s) ==
  IF s # <<>> /\ s[Len(s)] \in Terminals
    THEN RStripTerminals(SubSeq(s, 1, Len(s) - 1))
    ELSE s

\* str.split(): scanning from position i, with the word cur open
RECURSIVE SplitWordsFrom(_, _, _, _)
SplitWordsFrom(s, i, cur, acc) ==
  IF i > Len(s) THEN (IF cur = <<>> THEN acc ELSE Append(acc, cur))
  ELSE IF s[i] \in Whitespace
    THEN SplitWordsFrom(s, i + 1, <<>>,
                        IF cur = <<>> THEN acc ELSE Append(acc, cur))
    ELSE SplitWordsFrom(s, i + 1, Append(cur, s[i]), acc)

SplitWords(s) == SplitWordsFrom(s, 1, <<>>, <<>>)

\* seq[:n] for n >= 0
FirstN(seq, n) == SubSeq(seq, 1, IF n < Len(seq) THEN n ELSE Len(seq))

\* the copula rule's card
CopulaCard(m) ==
  <<WhatIsPrefix \o Strip(m.subject) \o <<"?">>, RStripTerminals(Strip(m.rest))>>

\* the possession rule's card
HasCard(m2) ==
  <<WhatDoesPrefix \o Strip(m2.subject) \o HaveSuffix,
    RStripTerminals(Strip(m2.rest))>>

\* the two fallbacks' card
FallbackCard(s) ==
  LET words == SplitWords(s)
  IN  IF Len(words) > LongWords
        THEN <<WhatSayPrefix \o Join(<<" ">>, FirstN(words, LongWords)) \o Ellipsis, s>>
        ELSE <<QuestionPrefix \o FirstN(s, QuestionChars) \o ThreeDots, s>>

\* mutant of _qa_from_sentence: the possession rule is tried first
QaPossessionFirst(sent) ==
  LET s == Strip(sent)
      m == ReSearch(s, CopulaVerbs)
      m2 == ReSearch(s, HasVerbs)
  IN  IF m2 # <<>> THEN HasCard(m2[1])
      ELSE IF m # <<>> THEN CopulaCard(m[1])
      ELSE FallbackCard(s)

\* _qa_from_sentence(sentence): the pair <<question, answer>>
_qa_from_sentence(sent) ==
  LET s == Strip(sent)
      m == ReSearch(s, CopulaVerbs)
      m2 == ReSearch(s, HasVerbs)
  IN  IF m # <<>> THEN CopulaCard(m[1])
      ELSE IF m2 # <<>> THEN HasCard(m2[1])
      ELSE FallbackCard(s)

-----------------------------------------------------------------------------
(* _qa_from_sentence: the inputs checked and the invocation.               *)

\* most words of the varied part of a sentence
MaxWords == 3

\* the words a sentence is varied over: a plain word, a copula, a second
\* copula with a capital, the possession verb, and a word that merely holds "is"
QaWords ==
  { <<"x">>, <<"i", "s">>, <<"W", "a", "s">>, <<"h", "a", "s">>,
    <<"t", "h", "i", "s">> }

\* what separates two words
QaSeps == { <<" ">>, <<"\n">> }

\* how a sentence ends
QaEnds == { <<>>, <<".">> }

\* what a sentence starts with: nothing, five plain words, or one word of 38
\* characters (so that sentences of 6, 7 and 8 words and of 40 and more
\* characters are among the inputs)
QaStarts ==
  { <<>>,
    <<"x", " ", "x", " ", "x", " ", "x", " ", "x", " ">>,
    [i \in 1..39 |-> IF i = 39 THEN " " ELSE "x"] }

\* the sentences _qa_from_sentence is checked on: each is trimmed and has no
\* terminal punctuation followed by whitespace, as the sentence splitter leaves it
QaSentences ==
  { st \o w \o e :
      st \in QaStarts,
      w \in UNION {ComposeText(QaWords, QaSeps, n) : n \in 1..MaxWords},
      e \in QaEnds }

InitQa ==
  /\ ModuleLoaded
  /\ pc = "qa"
  /\ sentence \in QaSentences
  /\ result = Unbound
  /\ text = <<>>
  /\ max_sentences = 0
  /\ sents = Unbound
  /\ freq = Unbound
  /\ scores = Unbound
  /\ ranked = Unbound
  /\ idx = Unbound
  /\ max_cards = 0
  /\ cards = Unbound
  /\ todo = Unbound
  /\ payload = <<>>

\* q, a = _qa_from_sentence(sentence)
QaCall ==
  /\ pc = "qa"
  /\ result' = Bound(_qa_from_sentence(sentence))
  /\ pc' = "done"
  /\ UNCHANGED <<text, max_sentences, sumLocals, sentence, max_cards, cards,
                 todo, payload, stopwords, calls>>

NextQa == QaCall

SpecQa == InitQa /\ [][NextQa]_vars

-----------------------------------------------------------------------------
(* generate_flashcards: one invocation, step by step.                      *)

\* largest max_cards passed to generate_flashcards
MaxCards == 2

_sent_split(t) == StripNonEmpty(ReSplit(Strip(t)))

\* mutant of AppendCard: the answer of the card before is kept
AppendCardStaleAnswer(cs, sent) ==
  Append(cs, <<_qa_from_sentence(sent)[1],
               IF cs = <<>> THEN _qa_from_sentence(sent)[2] ELSE cs[Len(cs)][2]>>)

\* q, a = _qa_from_sentence(sent); cards.append((q, a))
AppendCard(cs, sent) == Append(cs, _qa_from_sentence(sent))

\* mutant of CapReached: the comparison is strict
CapReachedLate(cs, cap) == Len(cs) > cap

\* if len(cards) >= max_cards
CapReached(cs, cap) == Len(cs) >= cap

\* pieces of text: a copula sentence, a possession sentence, a sentence for the
\* short fallback, a fragment without terminal punctuation
FcChunks ==
  { <<"x", " ", "i", "s", " ", "y", ".">>,
    <<"y", " ", "h", "a", "s", " ", "x", "!">>,
    <<"x", " ", "y", "?">>,
    <<"z">> }

\* what stands between two pieces
FcSeps == { <<" ">>, <<>> }

FcTexts ==
  BlankTexts \cup UNION {ComposeText(FcChunks, FcSeps, n) : n \in 0..MaxChunks}

InitFc ==
  /\ ModuleLoaded
  /\ pc = "flashcards"
  /\ text \in FcTexts
  /\ max_cards \in 1..MaxCards
  /\ cards = Unbound
  /\ todo = Unbound
  /\ result = Unbound
  /\ max_sentences = 0
  /\ sents = Unbound
  /\ freq = Unbound
  /\ scores = Unbound
  /\ ranked = Unbound
  /\ idx = Unbound
  /\ sentence = <<>>
  /\ payload = <<>>

\* what an invocation of generate_flashcards leaves alone
notFc ==
  <<text, max_cards, max_sentences, sumLocals, sentence, payload, stopwords, calls>>

\* cards = []; for sent in _sent_split(text)
FcStart ==
  /\ pc = "flashcards"
  /\ cards' = Bound(<<>>)
  /\ todo' = Bound(_sent_split(text))
  /\ pc' = "loop"
  /\ UNCHANGED <<result, notFc>>

\* one pass of the loop body: the card of the next sentence, and the break
FcCard ==
  /\ pc = "loop"
  /\ Val(todo) # <<>>
  /\ cards' = Bound(AppendCard(Val(cards), Head(Val(todo))))
  /\ todo' = Bound(Tail(Val(todo)))
  /\ pc' = IF CapReached(AppendCard(Val(cards), Head(Val(todo))), max_cards)
             THEN "return" ELSE "loop"
  /\ UNCHANGED <<result, notFc>>

\* the loop ends with the sentences
FcExhausted ==
  /\ pc = "loop"
  /\ Val(todo) = <<>>
  /\ pc' = "return"
  /\ UNCHANGED <<cards, todo, result, notFc>>

\* return cards
FcReturn ==
  /\ pc = "return"
  /\ result' = Bound(Val(cards))
  /\ pc' = "done"
  /\ UNCHANGED <<cards, todo, notFc>>

NextFc ==
  \/ FcStart
  \/ FcCard
  \/ FcExhausted
  \/ FcReturn

SpecFc == InitFc /\ [][NextFc]_vars

-----------------------------------------------------------------------------
(* POST /summarize: api_summarize.                                         *)
(*                                                                         *)
(* A JSON value is a record tagged by t: "null", "bool" (b), "int" (n),   *)
(* "float" (tenths), "nan", "str" (v, a sequence of characters) or "list". *)
(* The payload is a function from the keys present to their values.       *)

\* longest string sent as max_sentences
MaxNumberLen == 3

\* the default of max_sentences, in the get and in the except clause
DefaultMaxSentences == 3

\* dict.get(key, default)
DictGet(d, key, default) == IF key \in DOMAIN d THEN d[key] ELSE default

\* (text or ""): None and "" give ""
OrEmpty(v) == IF v.t = "str" THEN v.v ELSE <<>>

DigitChars == <<"0", "1", "2", "3", "4", "5", "6", "7", "8", "9">>

DigitValue(c) == (CHOOSE n \in 1..10 : DigitChars[n] = c) - 1

\* the digits of an integer literal from position i on, with the value so far:
\* digits, single underscores only between digits; <<>> when malformed
RECURSIVE ParseDigitsFrom(_, _, _)
ParseDigitsFrom(s, i, acc) ==
  IF i > Len(s) THEN <<acc>>
  ELSE IF s[i] \in Digits
    THEN ParseDigitsFrom(s, i + 1, 10 * acc + DigitValue(s[i]))
  ELSE IF s[i] = "_" /\ i > 1 /\ s[i - 1] \in Digits
          /\ i < Len(s) /\ s[i + 1] \in Digits
    THEN ParseDigitsFrom(s, i + 1, acc)
  ELSE <<>>

\* int(str): whitespace stripped, an optional sign, then the digits
ParseInt(str) ==
  LET s == Strip(str)
      signed == s # <<>> /\ s[1] \in {"+", "-"}
      digits == IF signed THEN Tail(s) ELSE s
      parsed == IF digits = <<>> THEN <<>> ELSE ParseDigitsFrom(digits, 1, 0)
  IN  IF parsed = <<>> THEN <<>>
      ELSE IF signed /\ s[1] = "-" THEN <<0 - parsed[1]>>
      ELSE parsed

\* int(float): truncation towards zero
Truncate(tenths) ==
  IF tenths >= 0 THEN tenths \div 10 ELSE 0 - ((0 - tenths) \div 10)

\* int(k): <<n>>, or <<>> when it raises
PyInt(k) ==
  CASE k.t = "int" -> <<k.n>>
    [] k.t = "bool" -> <<IF k.b THEN 1 ELSE 0>>
    [] k.t = "float" -> <<Truncate(k.tenths)>>
    [] k.t = "str" -> ParseInt(k.v)
    [] OTHER -> <<>>

\* mutant of MaxSentencesArg: the except clause falls back to 1
MaxSentencesArgOtherFallback(pl) ==
  LET k == DictGet(pl, "max_sentences", [t |-> "int", n |-> DefaultMaxSentences])
  IN  IF PyInt(k) = <<>> THEN 1 ELSE PyInt(k)[1]

\* k = (payload or {}).get("max_sentences", 3); try: k = int(k); except: k = 3
MaxSentencesArg(pl) ==
  LET k == DictGet(pl, "max_sentences", [t |-> "int", n |-> DefaultMaxSentences])
  IN  IF PyInt(k) = <<>> THEN DefaultMaxSentences ELSE PyInt(k)[1]

\* text = (payload or {}).get("text", "")
TextArg(pl) == DictGet(pl, "text", [t |-> "str", v |-> <<>>])

\* api_summarize(payload): the response
api_summarize(pl) ==
  [status |-> 200,
   summary |-> summarize(OrEmpty(TextArg(pl)), MaxSentencesArg(pl))]

\* the texts posted: one of four sentences, one of one sentence
ApiTexts ==
  { <<"b", ".", " ", "c", " ", "c", "?", " ", "B", " ", "c", "!", " ", "c", " ", "b", ".">>,
    <<"b", ".">> }

\* the characters of a string sent as max_sentences
NumberChars == {"2", "0", "-", "_", " ", "x"}

NumberStrings == UNION {[1..n -> NumberChars] : n \in 0..MaxNumberLen}

\* the values sent as max_sentences
MaxSentencesValues ==
  {[t |-> "null"], [t |-> "nan"], [t |-> "list"]}
    \cup {[t |-> "bool", b |-> b] : b \in BOOLEAN}
    \cup {[t |-> "int", n |-> n] : n \in -1..4}
    \cup {[t |-> "float", tenths |-> x] : x \in {-15, 5, 25}}
    \cup {[t |-> "str", v |-> str] : str \in NumberStrings}

\* the values sent as text
TextValues == {[t |-> "null"]} \cup {[t |-> "str", v |-> str] : str \in ApiTexts}

Payloads ==
  {<<>>}
    \cup {("text" :> tv) : tv \in TextValues}
    \cup {("max_sentences" :> kv) : kv \in MaxSentencesValues}
    \cup {("text" :> tv) @@ ("max_sentences" :> kv) :
            tv \in TextValues, kv \in MaxSentencesValues}

InitApi ==
  /\ ModuleLoaded
  /\ pc = "api"
  /\ payload \in Payloads
  /\ result = Unbound
  /\ text = <<>>
  /\ max_sentences = 0
  /\ sents = Unbound
  /\ freq = Unbound
  /\ scores = Unbound
  /\ ranked = Unbound
  /\ idx = Unbound
  /\ sentence = <<>>
  /\ max_cards = 0
  /\ cards = Unbound
  /\ todo = Unbound

\* the handler of POST /summarize
ApiSummarize ==
  /\ pc = "api"
  /\ result' = Bound(api_summarize(payload))
  /\ pc' = "done"
  /\ UNCHANGED <<text, max_sentences, sumLocals, sentence, max_cards, cards,
                 todo, payload, stopwords, calls>>

NextApi == ApiSummarize

SpecApi == InitApi /\ [][NextApi]_vars

-----------------------------------------------------------------------------
(* Claims about summarize, checked under SpecSum.                          *)

\* the sentences of the invocation's text
InputSentences == _tokenize_sentences(text)

\* the strictly ascending sequences of indices into a sequence of n elements
AscendingIndexSeqs(n) ==
  { ix \in UNION {[1..m -> 1..n] : m \in 0..n} :
      \A j \in 1..(Len(ix) - 1) : ix[j] < ix[j + 1] }

\* the elements of ss at the indices ix, in that order
Pick(ss, ix) == [j \in 1..Len(ix) |-> ss[ix[j]]]

\* C1: for a text with more than max_sentences sentences, summarize returns
\* exactly max_sentences sentences of the text, in textual order, each input
\* sentence used at most once.
C1_ExactlyK ==
  pc = "done" /\ Len(InputSentences) > max_sentences =>
    \E ix \in AscendingIndexSeqs(Len(InputSentences)) :
      /\ Len(ix) = max_sentences
      /\ Val(result) = Join(<<" ">>, Pick(InputSentences, ix))

\* C2: the summary holds at most max_sentences sentences and is a
\* subsequence of the input's sentences: verbatim sentences, each index used
\* at most once, indices ascending.
C2_AtMostKSubsequence ==
  pc = "done" =>
    \E ix \in AscendingIndexSeqs(Len(InputSentences)) :
      /\ Len(ix) <= max_sentences
      /\ Val(result) = Join(<<" ">>, Pick(InputSentences, ix))

\* C2 witness: a summary of two sentences chosen by rank out of three.
C2_Witness ==
  /\ pc = "done"
  /\ idx # Unbound
  /\ Len(InputSentences) = 3
  /\ Len(Val(idx)) = 2
  /\ Val(ranked)[1][1] > Val(ranked)[2][1]

\* C3: for a text of at least one and at most max_sentences sentences,
\* summarize returns all its sentences joined by single spaces, in order, and
\* computes no frequency table, score or ranking.
C3_ShortInputVerbatim ==
  pc = "done" /\ Len(InputSentences) >= 1
              /\ Len(InputSentences) <= max_sentences =>
    /\ Val(result) = Join(<<" ">>, InputSentences)
    /\ freq = Unbound
    /\ scores = Unbound
    /\ ranked = Unbound
    /\ idx = Unbound

\* C3 witness: a text of exactly max_sentences = 2 sentences was summarized.
C3_Witness ==
  /\ pc = "done"
  /\ max_sentences = 2
  /\ Len(InputSentences) = 2
  /\ result # Unbound

\* occurrences of token w in the token sequence words
OccurrencesIn(w, words) == Cardinality({p \in 1..Len(words) : words[p] = w})

RECURSIVE SumOver(_, _)
SumOver(f, n) == IF n = 0 THEN 0 ELSE f[n] + SumOver(f, n - 1)

\* occurrences of token w in the whole text
OccurrencesInText(w, ss) ==
  SumOver([i \in 1..Len(ss) |-> OccurrencesIn(w, _tokenize_words(ss[i]))], Len(ss))

\* the score of sentence i by its definition: over its token occurrences, the
\* sum of each token's occurrence count in the whole text
DefinedScore(ss, i) ==
  LET words == _tokenize_words(ss[i])
  IN  SumOver([p \in 1..Len(words) |-> OccurrencesInText(words[p], ss)], Len(words))

\* sentence i is ranked before sentence j: a higher score, or an equal score and
\* a smaller index
RankedBefore(ss, i, j) ==
  \/ DefinedScore(ss, i) > DefinedScore(ss, j)
  \/ DefinedScore(ss, i) = DefinedScore(ss, j) /\ i < j

\* C4: with more sentences than max_sentences, summarize selects the
\* max_sentences sentences of highest score, ties going to the smaller index:
\* every selected sentence is ranked before every unselected one.
C4_TopKByScore ==
  pc = "done" /\ Len(InputSentences) > max_sentences =>
    /\ idx # Unbound
    /\ Len(Val(idx)) = max_sentences
    /\ \A j \in 1..Len(InputSentences) :
         (\A m \in 1..Len(Val(idx)) : Val(idx)[m] # j) =>
           \A m \in 1..Len(Val(idx)) : RankedBefore(InputSentences, Val(idx)[m], j)

\* C10: splitting the summary with the sentence splitter yields a subsequence
\* of the sentences of the text.
C10_SplitOfSummaryIsSubsequence ==
  pc = "done" =>
    \E ix \in AscendingIndexSeqs(Len(InputSentences)) :
      _tokenize_sentences(Val(result)) = Pick(InputSentences, ix)

\* C10 witness: a summary joined from two ranked sentences splits in two.
C10_Witness ==
  /\ pc = "done"
  /\ idx # Unbound
  /\ Len(Val(idx)) = 2
  /\ Len(_tokenize_sentences(Val(result))) = 2

-----------------------------------------------------------------------------
(* Claims about _qa_from_sentence, checked under SpecQa.                   *)

\* the question and the answer returned
Question == Val(result)[1]
Answer == Val(result)[2]

\* s starts with pre
StartsWith(s, pre) == Len(s) >= Len(pre) /\ SubSeq(s, 1, Len(pre)) = pre

SetOf(seq) == {seq[n] : n \in 1..Len(seq)}

SmallestOf(S) == CHOOSE p \in S : \A r \in S : p <= r

\* verb v stands at position p of s, in any case
VerbStandsAt(s, p, v) ==
  /\ p + Len(v) - 1 <= Len(s)
  /\ \A n \in 1..Len(v) : LowerChar(s[p + n - 1]) = v[n]

\* the positions where one of the verbs stands with whitespace directly before
\* and directly after it
DelimitedOccurrences(s, verbs) ==
  { p \in 2..Len(s) :
      /\ s[p - 1] \in Whitespace
      /\ \E v \in SetOf(verbs) :
           /\ VerbStandsAt(s, p, v)
           /\ p + Len(v) <= Len(s)
           /\ s[p + Len(v)] \in Whitespace }

\* the positions where one of the verbs stands as a whole word: no word
\* character directly before or after it
WholeWordOccurrences(s, verbs) ==
  { p \in 1..Len(s) :
      \E v \in SetOf(verbs) :
        /\ VerbStandsAt(s, p, v)
        /\ (p = 1 \/ s[p - 1] \notin WordChars)
        /\ (p + Len(v) - 1 = Len(s) \/ s[p + Len(v)] \notin WordChars) }

\* the length of the verb that stands at position p
VerbLength(s, p, verbs) ==
  Len(CHOOSE v \in SetOf(verbs) : VerbStandsAt(s, p, v))

TextBefore(s, p) == SubSeq(s, 1, p - 1)
TextAfter(s, p, verbs) == SubSeq(s, p + VerbLength(s, p, verbs), Len(s))

HasLineFeed(s) == \E j \in 1..Len(s) : s[j] = "\n"

\* s up to its first line feed
FirstLineOf(s) ==
  IF HasLineFeed(s)
    THEN SubSeq(s, 1, SmallestOf({j \in 1..Len(s) : s[j] = "\n"}) - 1)
    ELSE s

\* the sentence matches <subject> verb <predicate>: a verb stands between
\* whitespace, and the subject before the earliest such verb holds no line feed
PatternMatches(s, verbs) ==
  LET occ == DelimitedOccurrences(s, verbs)
  IN  occ # {} /\ ~HasLineFeed(RStrip(TextBefore(s, SmallestOf(occ))))

\* the subject of a matching sentence: everything before the earliest verb, trimmed
SubjectOf(s, verbs) ==
  Strip(TextBefore(s, SmallestOf(DelimitedOccurrences(s, verbs))))

\* the positions where a whitespace-separated word starts
WordStarts(s) ==
  { i \in 1..Len(s) : s[i] \notin Whitespace /\ (i = 1 \/ s[i - 1] \in Whitespace) }

\* the word that starts at position i
WordFrom(s, i) ==
  SubSeq(s, i, SmallestOf({e \in i..Len(s) :
                             e = Len(s) \/ s[e + 1] \in Whitespace}))

\* the first n words of s, joined by single spaces
RECURSIVE FirstWordsJoined(_, _, _)
FirstWordsJoined(s, starts, n) ==
  IF n = 0 \/ starts = {} THEN <<>>
  ELSE LET i == SmallestOf(starts)
           more == FirstWordsJoined(s, starts \ {i}, n - 1)
       IN  IF more = <<>> THEN WordFrom(s, i) ELSE WordFrom(s, i) \o <<" ">> \o more

-----------------------------------------------------------------------------
(* Claims about generate_flashcards, checked under SpecFc.                 *)

Smaller(a, b) == IF a < b THEN a ELSE b

\* part occurs in whole as a run of consecutive characters
OccursIn(part, whole) ==
  \E i \in 0..(Len(whole) - Len(part)) : SubSeq(whole, i + 1, i + Len(part)) = part

\* C5: generate_flashcards(T, C) returns exactly min(sentence count of T, C) cards.
C5_CardCount ==
  pc = "done" =>
    Len(Val(result)) = Smaller(Len(_sent_split(text)), max_cards)

\* C5 witness: a text of three sentences was cut at a cap of two cards.
C5_Witness ==
  /\ pc = "done"
  /\ Len(_sent_split(text)) = 3
  /\ max_cards = 2
  /\ Len(Val(result)) = 2

\* C8: the i-th card is the card of the i-th sentence and of no other: its
\* question and its answer are those _qa_from_sentence gives for that sentence,
\* and its answer is a part of that sentence.
C8_CardFromItsSentence ==
  pc = "done" =>
    /\ Len(Val(result)) <= Len(_sent_split(text))
    /\ \A i \in 1..Len(Val(result)) :
         /\ Val(result)[i] = _qa_from_sentence(_sent_split(text)[i])
         /\ OccursIn(Val(result)[i][2], _sent_split(text)[i])

\* C8 witness: two cards made by different rules from two different sentences.
C8_Witness ==
  /\ pc = "done"
  /\ Len(Val(result)) >= 2
  /\ _sent_split(text)[1] # _sent_split(text)[2]
  /\ StartsWith(Val(result)[1][1], WhatIsPrefix)
  /\ StartsWith(Val(result)[2][1], WhatDoesPrefix)
  /\ Val(result)[1][2] # Val(result)[2][2]

-----------------------------------------------------------------------------
(* Claims about POST /summarize, checked under SpecApi.                    *)

\* str is an integer literal: an optional sign, then digits and underscores,
\* starting and ending with a digit, no two underscores adjacent
IsIntegerLiteral(str) ==
  LET body == IF str # <<>> /\ str[1] \in {"+", "-"} THEN Tail(str) ELSE str
  IN  /\ body # <<>>
      /\ \A i \in 1..Len(body) : body[i] \in Digits \cup {"_"}
      /\ body[1] \in Digits
      /\ body[Len(body)] \in Digits
      /\ \A i \in 1..(Len(body) - 1) : ~(body[i] = "_" /\ body[i + 1] = "_")

\* the value can be interpreted as an integer
Interpretable(v) ==
  \/ v.t \in {"int", "bool", "float"}
  \/ v.t = "str" /\ IsIntegerLiteral(Strip(v.v))

\* the text the request carries: the empty string when it is missing (or null)
RequestText ==
  IF "text" \in DOMAIN payload /\ payload["text"].t = "str"
    THEN payload["text"].v
    ELSE <<>>

\* C9: when max_sentences is missing or cannot be interpreted as an integer,
\* the response is a success whose summary is summarize(text, 3), a missing
\* text counting as the empty string.
C9_InvalidMaxSentencesDefaults ==
  pc = "done"
    /\ ("max_sentences" \notin DOMAIN payload
          \/ ~Interpretable(payload["max_sentences"])) =>
    /\ Val(result).status = 200
    /\ Val(result).summary = summarize(RequestText, 3)

\* C9 witness: a text of four sentences posted with a string that is no
\* integer was summarized to three sentences.
C9_Witness ==
  /\ pc = "done"
  /\ "max_sentences" \in DOMAIN payload
  /\ payload["max_sentences"].t = "str"
  /\ ~Interpretable(payload["max_sentences"])
  /\ Len(_tokenize_sentences(RequestText)) = 4
  /\ Len(_tokenize_sentences(Val(result).summary)) = 3

-----------------------------------------------------------------------------
(* Both operations on texts with whitespace around them, summarize with    *)
(* any integer max_sentences.                                              *)

\* whitespace standing before or after a piece of text
Pads == BlankTexts \cup { <<"\t">>, <<"\r", "\n">> }

\* a piece of text, or none, between two runs of whitespace
PaddedTexts ==
  { pre \o c \o post : pre \in Pads, c \in SumChunks \cup {<<>>}, post \in Pads }

InitPadded ==
  /\ ModuleLoaded
  /\ text \in PaddedTexts
  /\ \/ pc = "summarize" /\ max_sentences \in (0 - MaxK)..MaxK /\ max_cards = 0
     \/ pc = "flashcards" /\ max_sentences = 0 /\ max_cards \in 1..MaxCards
  /\ sents = Unbound
  /\ freq = Unbound
  /\ scores = Unbound
  /\ ranked = Unbound
  /\ idx = Unbound
  /\ cards = Unbound
  /\ todo = Unbound
  /\ result = Unbound
  /\ sentence = <<>>
  /\ payload = <<>>

NextPadded ==
  \/ NextSum
  \/ NextFc

SpecPadded == InitPadded /\ [][NextPadded]_vars

\* the text is empty or holds whitespace only
IsBlank(t) == \A i \in 1..Len(t) : t[i] \in Whitespace

\* C11: on the empty text and on a whitespace-only text neither operation
\* raises (an invocation that has not returned has a next step), summarize
\* returns the empty string whatever max_sentences is, and
\* generate_flashcards returns the empty sequence.
C11_BlankTextYieldsEmpty ==
  IsBlank(text) =>
    /\ pc # "done" => ENABLED NextPadded
    /\ pc = "done" => result = Bound(<<>>)

\* C11 witness: summarize has returned on a whitespace-only text with a
\* negative max_sentences.
C11_Witness ==
  /\ pc = "done"
  /\ text # <<>>
  /\ IsBlank(text)
  /\ max_sentences < 0
  /\ sents = Bound(<<>>)
  /\ result = Bound(<<>>)

\* generate_flashcards has returned on a whitespace-only text
C11_FlashcardsReached ==
  /\ pc = "done"
  /\ text # <<>>
  /\ IsBlank(text)
  /\ cards = Bound(<<>>)

-----------------------------------------------------------------------------
(* summarize: the sentences without tokens.                                *)

\* the indices of the input's sentences that have at least one token
TokenBearing ==
  { i \in 1..Len(InputSentences) : _tokenize_words(InputSentences[i]) # <<>> }

\* the indices that have an entry in scores
Scored == { Val(scores)[m][1] : m \in 1..Len(Val(scores)) }

\* C13: on the ranked path (more sentences than max_sentences >= 1) a
\* sentence without tokens has no entry in scores and is not selected, and the
\* summary is made of exactly min(max_sentences, number of sentences with at
\* least one token) sentences.
C13_TokenlessNeverSelected ==
  pc = "done" /\ Len(InputSentences) > max_sentences /\ max_sentences >= 1 =>
    LET bearing == TokenBearing
        count == Smaller(max_sentences, Cardinality(bearing))
    IN  /\ scores # Unbound /\ idx # Unbound
        /\ Scored \subseteq bearing
        /\ { Val(idx)[m] : m \in 1..Len(Val(idx)) } \subseteq bearing
        /\ Len(Val(idx)) = count
        /\ Val(result) = Join(<<" ">>, Pick(InputSentences, Val(idx)))
        /\ Len(_tokenize_sentences(Val(result))) = count

\* C13 witness: a ranked summary of a text with a sentence without tokens and
\* fewer token-bearing sentences than max_sentences, one of them selected.
C13_Witness ==
  /\ pc = "done"
  /\ Len(InputSentences) > max_sentences
  /\ idx # Unbound
  /\ \E i \in 1..Len(InputSentences) : i \notin TokenBearing
  /\ Cardinality(TokenBearing) < max_sentences
  /\ Len(Val(idx)) = 1

-----------------------------------------------------------------------------
(* Several invocations of summarize and generate_flashcards at once, each  *)
(* in its own frame, interleaved loop pass by loop pass.                   *)

\* number of concurrent invocations
MaxCalls == 2

Calls == 1..MaxCalls

\* [w for w in words if w not in STOPWORDS], against the global as it stands
RECURSIVE DropWordsIn(_, _)
DropWordsIn(words, stop) ==
  IF words = <<>> THEN <<>>
  ELSE IF Head(words) \in stop THEN DropWordsIn(Tail(words), stop)
  ELSE <<Head(words)>> \o DropWordsIn(Tail(words), stop)

\* _tokenize_words(s), against the global as it stands
TokenizeWords(s, stop) == DropWordsIn(FindWords(Lower(s)), stop)

\* for w in words: scores[i] += freq[w], on the defaultdict sc
ScoreAdd(sc, i, words, f) ==
  IF words = <<>> THEN sc
  ELSE IF \E m \in 1..Len(sc) : sc[m][1] = i
    THEN [m \in 1..Len(sc) |->
            IF sc[m][1] = i THEN <<i, AddFreqs(sc[m][2], words, f)>> ELSE sc[m]]
    ELSE Append(sc, <<i, AddFreqs(0, words, f)>>)

\* the loop of generate_flashcards over the sentences ss, cs collected so far
RECURSIVE CardsFrom(_, _, _)
CardsFrom(ss, cs, cap) ==
  IF ss = <<>> THEN cs
  ELSE IF CapReached(AppendCard(cs, Head(ss)), cap)
    THEN AppendCard(cs, Head(ss))
    ELSE CardsFrom(Tail(ss), AppendCard(cs, Head(ss)), cap)

generate_flashcards(t, cap) == CardsFrom(_sent_split(t), <<>>, cap)

\* mutant of TableHolder: one frequency table and one score table for the
\* module, kept with the first invocation
TableHolderModule(c) == 1

\* freq = Counter() and scores = defaultdict(int) bind new tables to local
\* names: the frame holding the tables invocation c works on is c's own
TableHolder(c) == c

\* the frame of an invocation at its entry
Frame(op, t, k, cap) ==
  [ op |-> op, pc |-> "entry", text |-> t, max_sentences |-> k, max_cards |-> cap,
    sents |-> Unbound, freq |-> Unbound, scores |-> Unbound, ranked |-> Unbound,
    idx |-> Unbound, i |-> 0, cards |-> Unbound, todo |-> Unbound,
    result |-> Unbound ]

\* the texts of concurrent invocations: the empty text and two texts of three
\* sentences with different frequent words
ConcTexts ==
  { <<>>,
    <<"b", ".", " ", "c", " ", "c", "?", " ", "B", " ", "c", "!">>,
    <<"b", " ", "i", "s", " ", "b", ".", " ", "b", ".", " ", "c", ".">> }

\* max_sentences of concurrent invocations: the small ones, and the default
ConcK == (1..MaxK) \cup {DefaultMaxSentences}

EntryFrames ==
  { Frame("summarize", t, k, 0) : t \in ConcTexts, k \in ConcK }
    \cup { Frame("flashcards", t, 0, MaxCards) : t \in ConcTexts }

\* the variables of the single-invocation specifications
single ==
  <<pc, text, max_sentences, sumLocals, sentence, max_cards, cards, todo,
    payload, result>>

\* the invocations are interchangeable: they are numbered by the length of
\* their texts
InitConc ==
  /\ calls \in [Calls -> EntryFrames]
  /\ \A c \in Calls : c < MaxCalls => Len(calls[c].text) <= Len(calls[c + 1].text)
  /\ stopwords = STOPWORDS
  /\ pc = "concurrent"
  /\ text = <<>>
  /\ max_sentences = 0
  /\ sents = Unbound
  /\ freq = Unbound
  /\ scores = Unbound
  /\ ranked = Unbound
  /\ idx = Unbound
  /\ sentence = <<>>
  /\ max_cards = 0
  /\ cards = Unbound
  /\ todo = Unbound
  /\ payload = <<>>
  /\ result = Unbound

\* the frame holding the tables of invocation c
Tables(c) == calls[TableHolder(c)]

\* summarize: sents = _tokenize_sentences(text)
CallSplit(c) ==
  /\ calls[c].op = "summarize" /\ calls[c].pc = "entry"
  /\ calls' = [calls EXCEPT ![c].sents = Bound(_tokenize_sentences(calls[c].text)),
                            ![c].pc = "split"]
  /\ UNCHANGED <<stopwords, single>>

\* summarize: if not sents: return ""
CallReturnEmpty(c) ==
  /\ calls[c].pc = "split"
  /\ Val(calls[c].sents) = <<>>
  /\ calls' = [calls EXCEPT ![c].result = Bound(<<>>), ![c].pc = "done"]
  /\ UNCHANGED <<stopwords, single>>

\* summarize: if len(sents) <= max_sentences: return " ".join(sents)
CallReturnAll(c) ==
  /\ calls[c].pc = "split"
  /\ Val(calls[c].sents) # <<>>
  /\ FitsWhole(Val(calls[c].sents), calls[c].max_sentences)
  /\ calls' = [calls EXCEPT ![c].result = Bound(Join(<<" ">>, Val(calls[c].sents))),
                            ![c].pc = "done"]
  /\ UNCHANGED <<stopwords, single>>

\* summarize: freq = Counter(), and the first loop is entered
CallCounter(c) ==
  /\ calls[c].pc = "split"
  /\ Val(calls[c].sents) # <<>>
  /\ ~FitsWhole(Val(calls[c].sents), calls[c].max_sentences)
  /\ calls' = [calls EXCEPT ![TableHolder(c)].freq = Bound(<<>>),
                            ![c].i = 1,
                            ![c].pc = "count"]
  /\ UNCHANGED <<stopwords, single>>

\* summarize: one pass of the first loop, for w in _tokenize_words(s): freq[w] += 1
CallCount(c) ==
  /\ calls[c].pc = "count"
  /\ calls[c].i <= Len(Val(calls[c].sents))
  /\ calls' =
       [calls EXCEPT
          ![TableHolder(c)].freq =
             Bound(CountWords(Val(Tables(c).freq),
                              TokenizeWords(Val(calls[c].sents)[calls[c].i], stopwords))),
          ![c].i = @ + 1]
  /\ UNCHANGED <<stopwords, single>>

\* summarize: the first loop ends; scores = defaultdict(int), and the second
\* loop is entered
CallDefaultdict(c) ==
  /\ calls[c].pc = "count"
  /\ calls[c].i > Len(Val(calls[c].sents))
  /\ calls' = [calls EXCEPT ![TableHolder(c)].scores = Bound(<<>>),
                            ![c].i = 1,
                            ![c].pc = "score"]
  /\ UNCHANGED <<stopwords, single>>

\* summarize: one pass of the second loop,
\* for w in _tokenize_words(s): scores[i] += freq[w]
CallScore(c) ==
  /\ calls[c].pc = "score"
  /\ calls[c].i <= Len(Val(calls[c].sents))
  /\ calls' =
       [calls EXCEPT
          ![TableHolder(c)].scores =
             Bound(ScoreAdd(Val(Tables(c).scores), calls[c].i,
                            TokenizeWords(Val(calls[c].sents)[calls[c].i], stopwords),
                            Val(Tables(c).freq))),
          ![c].i = @ + 1]
  /\ UNCHANGED <<stopwords, single>>

\* summarize: the second loop ends; ranked = sorted(scores.items(), ...)
CallRank(c) ==
  /\ calls[c].pc = "score"
  /\ calls[c].i > Len(Val(calls[c].sents))
  /\ calls' = [calls EXCEPT ![c].ranked = Bound(Rank(Val(Tables(c).scores))),
                            ![c].pc = "ranked"]
  /\ UNCHANGED <<stopwords, single>>

\* summarize: idx = sorted(...); return " ".join(sents[i] for i in idx)
CallSelect(c) ==
  /\ calls[c].pc = "ranked"
  /\ calls' =
       [calls EXCEPT
          ![c].idx = Bound(SelectIdx(Val(calls[c].ranked), calls[c].max_sentences)),
          ![c].result =
             Bound(JoinSelected(Val(calls[c].sents),
                                SelectIdx(Val(calls[c].ranked), calls[c].max_sentences))),
          ![c].pc = "done"]
  /\ UNCHANGED <<stopwords, single>>

\* generate_flashcards: cards = []; for sent in _sent_split(text)
CallCards(c) ==
  /\ calls[c].op = "flashcards" /\ calls[c].pc = "entry"
  /\ calls' = [calls EXCEPT ![c].cards = Bound(<<>>),
                            ![c].todo = Bound(_sent_split(calls[c].text)),
                            ![c].pc = "loop"]
  /\ UNCHANGED <<stopwords, single>>

\* generate_flashcards: one pass of the loop body, and the break
CallCard(c) ==
  /\ calls[c].pc = "loop"
  /\ Val(calls[c].todo) # <<>>
  /\ calls' =
       [calls EXCEPT
          ![c].cards = Bound(AppendCard(Val(calls[c].cards), Head(Val(calls[c].todo)))),
          ![c].todo = Bound(Tail(Val(calls[c].todo))),
          ![c].pc = IF CapReached(AppendCard(Val(calls[c].cards),
                                             Head(Val(calls[c].todo))),
                                  calls[c].max_cards)
                      THEN "return" ELSE "loop"]
  /\ UNCHANGED <<stopwords, single>>

\* generate_flashcards: the loop ends with the sentences
CallCardsExhausted(c) ==
  /\ calls[c].pc = "loop"
  /\ Val(calls[c].todo) = <<>>
  /\ calls' = [calls EXCEPT ![c].pc = "return"]
  /\ UNCHANGED <<stopwords, single>>

\* generate_flashcards: return cards
CallReturnCards(c) ==
  /\ calls[c].pc = "return"
  /\ calls' = [calls EXCEPT ![c].result = Bound(Val(calls[c].cards)),
                            ![c].pc = "done"]
  /\ UNCHANGED <<stopwords, single>>

\* any invocation takes its next step
NextConc ==
  \E c \in Calls :
    \/ CallSplit(c)
    \/ CallReturnEmpty(c)
    \/ CallReturnAll(c)
    \/ CallCounter(c)
    \/ CallCount(c)
    \/ CallDefaultdict(c)
    \/ CallScore(c)
    \/ CallRank(c)
    \/ CallSelect(c)
    \/ CallCards(c)
    \/ CallCard(c)
    \/ CallCardsExhausted(c)
    \/ CallReturnCards(c)

SpecConc == InitConc /\ [][NextConc]_vars

\* what summarize and generate_flashcards return, for the arguments of the
\* concurrent invocations
SummarizeAlone == [t \in ConcTexts, k \in ConcK |-> summarize(t, k)]
FlashcardsAlone == [t \in ConcTexts |-> generate_flashcards(t, MaxCards)]

\* what the invocation of frame fr returns when it runs alone
AloneResult(fr) ==
  IF fr.op = "summarize"
    THEN SummarizeAlone[fr.text, fr.max_sentences]
    ELSE FlashcardsAlone[fr.text]

\* the first n sentences of frame fr
FirstSentences(fr, n) == SubSeq(Val(fr.sents), 1, n)

\* C12: however the steps of concurrent summarize and generate_flashcards
\* invocations interleave, the stopword set stays what the module defined,
\* the frequency table and the scores of an invocation hold what its own
\* sentences put there, and an invocation that has returned has returned what
\* it returns when run alone.
C12_ConcurrentAsAlone ==
  /\ stopwords = STOPWORDS
  /\ \A c \in DOMAIN calls :
       /\ calls[c].pc = "count" =>
            calls[c].freq = Bound(CountFreq(FirstSentences(calls[c], calls[c].i - 1)))
       /\ calls[c].pc = "score" =>
            /\ calls[c].freq = Bound(CountFreq(Val(calls[c].sents)))
            /\ calls[c].scores =
                 Bound(ScoreSentences(FirstSentences(calls[c], calls[c].i - 1),
                                      CountFreq(Val(calls[c].sents))))
       /\ calls[c].pc = "done" => calls[c].result = Bound(AloneResult(calls[c]))

\* C12 witness: a ranked summary has been returned, equal to the one of the
\* invocation alone, while another summarize invocation on another text is
\* in the middle of its counting loop.
C12_Witness ==
  \E c, d \in DOMAIN calls :
    /\ calls[c].pc = "done"
    /\ calls[c].idx # Unbound
    /\ calls[c].result = Bound(summarize(calls[c].text, calls[c].max_sentences))
    /\ calls[d].pc = "count"
    /\ calls[d].i = 2
    /\ calls[d].text # calls[c].text

====
